---- MODULE Spec2Model ----
(***************************************************************************)
(* Model of processing/process/trajectory.py: the Trajectory value with    *)
(* its three query operations valid_mask, interpolate and postprocess.     *)
(*                                                                         *)
(* Numbers are exact integers.  Speeds and velocity components are in an   *)
(* arbitrary integer unit, timestamps and windows are in 1/100 s.  A       *)
(* floating point quotient is kept as an exact fraction num/den, or as     *)
(* one of the IEEE special values nan, posinf, neginf when the divisor is  *)
(* zero.                                                                   *)
(***************************************************************************)
EXTENDS Integers, Sequences, FiniteSets

VARIABLES
    \* postprocess: arguments, locals and outcome
    velocity, speed_radar, args, speed_slam, reject, speed_fused, ret, pc,
    \* the Trajectory and its queries: valid_mask and interpolate
    spline_x, spline_y, t, window, mask, mpc, samples, interp, ipc

fusion_vars == <<velocity, speed_radar, args, speed_slam, reject, speed_fused, ret, pc>>
traj_vars == <<spline_x, spline_y, t, window, mask, mpc, samples, interp, ipc>>
vars == <<fusion_vars, traj_vars>>

----------------------------------------------------------------------------
(* Bounds of the explored inputs *)

\* longest velocity / radar speed sequence (N)
MaxN == 2

\* SLAM velocity rows; each has an integer Euclidean norm (0, 1 and 3)
VelocityRows == {<<0, 0, 0>>, <<0, -1, 0>>, <<1, -2, 2>>}
RadarSpeeds == {0, 1, 4}
Smoothings == {-1, 1}
RejectThresholds == {0, 1}
MaxAdjustments == {-2, 0, 1}
\* medfilt raises ValueError for an even kernel size; the explored ones are odd
Kernels == {1, 3}

SeqsUpTo(S, n) == UNION {[1..k -> S] : k \in 0..n}

----------------------------------------------------------------------------
(* numpy / scipy primitives used by postprocess *)

Min(a, b) == IF a <= b THEN a ELSE b

\* np.linalg.norm(velocity, axis=1) of one row
norm(v) ==
    LET s == v[1] * v[1] + v[2] * v[2] + v[3] * v[3]
    IN  CHOOSE n \in 0..s : n * n = s

\* scipy.signal.medfilt(a, kernel_size=k): every sample is replaced by the
\* element of rank k \div 2 of the window of k samples centred on it, the
\* sequence being padded with zeros on both sides.
Padded(a, j) == IF j >= 1 /\ j <= Len(a) THEN a[j] ELSE 0

Window(a, i, k) == [j \in 1..k |-> Padded(a, i - (k \div 2) + j - 1)]

Rank(w, r) ==
    CHOOSE m \in {w[j] : j \in 1..Len(w)} :
        /\ Cardinality({j \in 1..Len(w) : w[j] < m}) <= r
        /\ Cardinality({j \in 1..Len(w) : w[j] <= m}) > r

\* mutant: the window is padded by repeating the edge samples
medfilt_nearest(a, k) ==
    LET edge(j) == IF j < 1 THEN a[1] ELSE IF j > Len(a) THEN a[Len(a)] ELSE a[j]
    IN  [i \in 1..Len(a) |->
            Rank([j \in 1..k |-> edge(i - (k \div 2) + j - 1)], k \div 2)]

medfilt(a, k) == [i \in 1..Len(a) |-> Rank(Window(a, i, k), k \div 2)]

\* np.minimum(x1, x2, out): numpy's signature is minimum(x1, x2, /, out=None),
\* so a third positional argument is the array the result is stored into and
\* returned; what it held before is overwritten and never read.
\* mutant: the cap speed_slam + max_adjustment is dropped
minimum_x2(x1, x2, out) == [i \in 1..Len(out) |-> x2[i]]

minimum(x1, x2, out) == [i \in 1..Len(out) |-> Min(x1[i], x2[i])]

\* scalar values of a float array after a division
Fin(n) == [kind |-> "fin", num |-> n, den |-> 1]

Divide(n, d) ==
    IF d > 0 THEN [kind |-> "fin", num |-> n, den |-> d]
    ELSE IF d < 0 THEN [kind |-> "fin", num |-> -n, den |-> -d]
    ELSE IF n = 0 THEN [kind |-> "nan", num |-> 0, den |-> 1]
    ELSE IF n > 0 THEN [kind |-> "posinf", num |-> 0, den |-> 1]
    ELSE [kind |-> "neginf", num |-> 0, den |-> 1]

\* np.nan_to_num(x, nan=0.0, posinf=0.0, neginf=0.0) of one element
\* mutant: only the infinities are replaced
nan_to_num_inf(x) == IF x.kind \in {"posinf", "neginf"} THEN Fin(0) ELSE x

nan_to_num(x) == IF x.kind \in {"nan", "posinf", "neginf"} THEN Fin(0) ELSE x

\* scipy.ndimage.gaussian_filter1d(velocity, sigma, axis=0): the result has the
\* shape of its input and every row of it is a weighted mean of input rows.
\* The weights depend on sigma and are left open: any sequence of that length
\* made of rows of the input is a possible result.
gaussian_filter1d(v) == [1..Len(v) -> {v[i] : i \in 1..Len(v)}]

----------------------------------------------------------------------------
(* postprocess *)

SpeedSlam(v) == [i \in 1..Len(v) |-> norm(v[i])]

RawFlags(slam, radar, reject_threshold) ==
    [i \in 1..Len(slam) |-> IF slam[i] + reject_threshold < radar[i] THEN 1 ELSE 0]

Reject(slam, radar, reject_threshold, reject_kernel) ==
    medfilt(RawFlags(slam, radar, reject_threshold), reject_kernel)

\* mutant: SLAM is no longer trusted when the radar speed is the smaller one
SpeedFused_unguarded(slam, radar, rej, max_adjustment, adjust_kernel) ==
    LET cap == minimum([i \in 1..Len(slam) |-> slam[i] + max_adjustment],
                       radar, medfilt(radar, adjust_kernel))
    IN  [i \in 1..Len(slam) |-> IF rej[i] # 0 THEN slam[i] ELSE cap[i]]

SpeedFused(slam, radar, rej, max_adjustment, adjust_kernel) ==
    LET cap == minimum([i \in 1..Len(slam) |-> slam[i] + max_adjustment],
                       radar, medfilt(radar, adjust_kernel))
    IN  [i \in 1..Len(slam) |->
            IF rej[i] # 0 \/ slam[i] > radar[i] THEN slam[i] ELSE cap[i]]

VelOut(v, slam, fused) ==
    [i \in 1..Len(v) |->
        [c \in 1..3 |-> nan_to_num(Divide(fused[i] * v[i][c], slam[i]))]]

AsFloats(v) == [i \in 1..Len(v) |-> [c \in 1..3 |-> Fin(v[i][c])]]

NoArgs == [smoothing |-> 0, adjust |-> FALSE, reject_threshold |-> 0,
           reject_kernel |-> 1, max_adjustment |-> 0, adjust_kernel |-> 1]

FusionIdle ==
    /\ velocity = <<>> /\ speed_radar = <<>> /\ args = NoArgs
    /\ speed_slam = <<>> /\ reject = <<>> /\ speed_fused = <<>>
    /\ ret = <<>> /\ pc = "idle"

FusionInit ==
    /\ \E n \in 0..MaxN :
        /\ velocity \in [1..n -> VelocityRows]
        /\ speed_radar \in [1..n -> RadarSpeeds]
    /\ args = NoArgs
    /\ speed_slam = <<>> /\ reject = <<>> /\ speed_fused = <<>>
    /\ ret = <<>> /\ pc = "start"

\* "if not adjust: return velocity"
ReturnsUnadjusted(adjust) == ~adjust

\* The filters of scipy are not specified for an empty array: on N = 0 a call
\* that reaches one of them either returns an empty array or raises.
postprocess(smoothing, adjust, reject_threshold, reject_kernel, max_adjustment, adjust_kernel) ==
    /\ pc = "start"
    /\ args' = [smoothing |-> smoothing, adjust |-> adjust,
                reject_threshold |-> reject_threshold,
                reject_kernel |-> reject_kernel,
                max_adjustment |-> max_adjustment,
                adjust_kernel |-> adjust_kernel]
    /\ \E v \in (IF smoothing > 0 THEN gaussian_filter1d(velocity) ELSE {velocity}) :
       \E filters_ok \in (IF Len(velocity) = 0 /\ (smoothing > 0 \/ ~ReturnsUnadjusted(adjust))
                          THEN BOOLEAN ELSE {TRUE}) :
        LET slam == SpeedSlam(v)
            rej == Reject(slam, speed_radar, reject_threshold, reject_kernel)
            fused == SpeedFused(slam, speed_radar, rej, max_adjustment, adjust_kernel)
        IN  /\ velocity' = v
            /\ IF ~filters_ok
               THEN /\ pc' = "raised"
                    /\ ret' = <<>>
                    /\ UNCHANGED <<speed_slam, reject, speed_fused>>
               ELSE IF ReturnsUnadjusted(adjust)
               THEN /\ pc' = "returned"
                    /\ ret' = AsFloats(v)
                    /\ UNCHANGED <<speed_slam, reject, speed_fused>>
               ELSE /\ pc' = "returned"
                    /\ speed_slam' = slam
                    /\ reject' = rej
                    /\ speed_fused' = fused
                    /\ ret' = VelOut(v, slam, fused)
    /\ UNCHANGED speed_radar

Postprocess ==
    /\ \E smoothing \in Smoothings, adjust \in BOOLEAN,
          reject_threshold \in RejectThresholds, reject_kernel \in Kernels,
          max_adjustment \in MaxAdjustments, adjust_kernel \in Kernels :
        postprocess(smoothing, adjust, reject_threshold, reject_kernel,
                    max_adjustment, adjust_kernel)
    /\ UNCHANGED traj_vars

----------------------------------------------------------------------------
(* The Trajectory: spline.x holds the sample timestamps; the sensor of the *)
(* explored trajectories stands still at position spline_y with a fixed    *)
(* orientation, so the Akima interpolant is the constant spline_y, its     *)
(* derivative is 0 and the slerp is the constant rotation.                 *)

\* longest query vector t
MaxQueries == 4
\* largest subsample count of interpolate
MaxSamples == 4

Timestamps == {<<0, 1000>>, <<0, 500, 1000>>, <<10, 990>>}
Positions == {-3, 7}
QueryTimes == {5, 20, 995, 996}
Windows == {10, 20}

t_min == spline_x[1]
t_max == spline_x[Len(spline_x)]

TrajInit ==
    /\ spline_x \in Timestamps
    /\ spline_y \in Positions
    /\ t \in SeqsUpTo(QueryTimes, MaxQueries)
    /\ window \in Windows
    /\ mask = <<>> /\ mpc = "start"
    /\ samples = 0 /\ interp = <<>> /\ ipc = "start"

(* valid_mask *)

\* mutant: only the centre of the window is checked
valid_mask_center(tq, w) ==
    [i \in 1..Len(tq) |-> (tq[i] >= t_min) /\ (tq[i] <= t_max)]

\* mutant: window is taken as the frame size, as interpolate takes it
valid_mask_half(tq, w) ==
    [i \in 1..Len(tq) |-> (2 * tq[i] - w >= 2 * t_min) /\ (2 * tq[i] + w <= 2 * t_max)]

valid_mask(tq, w) ==
    [i \in 1..Len(tq) |-> (tq[i] - w >= t_min) /\ (tq[i] + w <= t_max)]

ValidMask ==
    /\ mpc = "start"
    /\ mask' = valid_mask(t, window)
    /\ mpc' = "returned"
    /\ UNCHANGED <<spline_x, spline_y, t, window, samples, interp, ipc>>
    /\ UNCHANGED fusion_vars

(* interpolate *)

\* 1000 * cos(pi * n / d) for the angles np.hanning evaluates (d = M - 1 and
\* n = 1 - M, 3 - M, ..., M - 1), rounded to an integer where irrational.
Cos1000(n, d) ==
    LET a == IF n < 0 THEN -n ELSE n
    IN  CASE a = 0 -> 1000
          [] a = d -> -1000
          [] 2 * a = d -> 0
          [] 3 * a = d -> 500
          [] 3 * a = 2 * d -> -500
          [] 5 * a = d -> 809
          [] 5 * a = 3 * d -> -309
          [] 5 * a = 2 * d -> 309
          [] 5 * a = 4 * d -> -809

\* np.hanning(M), in units of 1/2000: [1] for M = 1 and otherwise
\* 0.5 + 0.5 * cos(pi * n / (M - 1)) for n = 1 - M, 3 - M, ..., M - 1
\* mutant: np.hamming(M), 0.54 + 0.46 * cos(pi * n / (M - 1))
hamming(M) ==
    IF M = 1 THEN <<2000>>
    ELSE [j \in 1..M |-> 1080 + (92 * Cos1000(1 - M + 2 * (j - 1), M - 1)) \div 100]

hanning(M) ==
    IF M = 1 THEN <<2000>>
    ELSE [j \in 1..M |-> 1000 + Cos1000(1 - M + 2 * (j - 1), M - 1)]

RECURSIVE SumSeq(_)
SumSeq(s) == IF Len(s) = 0 THEN 0 ELSE s[1] + SumSeq(Tail(s))

\* np.linspace(-window / 2, window / 2, samples) added to one query time:
\* the subsample times of the query, as numerators over the denominator
\* TimeDen(k) (the offsets are fractions of 1/100 s).
TimeDen(k) == IF k = 1 THEN 2 ELSE 2 * (k - 1)

window_offsets(w, k) ==
    IF k = 1 THEN <<-w>>
    ELSE [j \in 1..k |-> 2 * (j - 1) * w - (k - 1) * w]

SubsampleTimes(tq, w, k) ==
    [j \in 1..k |-> tq * TimeDen(k) + window_offsets(w, k)[j]]

\* Slerp.__call__(row): scipy raises ValueError("Interpolation times must be
\* within the range [t_min, t_max], both inclusive") unless every time is.
\* mutant: times outside the range are accepted
SlerpAnyTime(row, k) == TRUE

SlerpInRange(row, k) ==
    \A j \in 1..Len(row) :
        /\ row[j] >= t_min * TimeDen(k)
        /\ row[j] <= t_max * TimeDen(k)

\* Rotation.concatenate(list): np.concatenate of no arrays raises ValueError
\* mutant: no rotations concatenate to an empty Rotation
ConcatenateAny(n) == TRUE

ConcatenateOk(n) == n > 0

\* np.average(a, weights=w) raises ZeroDivisionError when the weights sum to
\* zero and is else sum(a * w) / sum(w)
AverageOk(w) == SumSeq(w) # 0

average(a, w) ==
    Divide(SumSeq([j \in 1..Len(a) |-> a[j] * w[j]]), SumSeq(w))

interpolate(k) ==
    LET hann == hanning(k)
        tt == [i \in 1..Len(t) |-> SubsampleTimes(t[i], window, k)]
    IN  IF \E i \in 1..Len(t) : ~SlerpInRange(tt[i], k)
        THEN [status |-> "ValueError", pos |-> <<>>, vel |-> <<>>, rot |-> <<>>]
        ELSE IF ~ConcatenateOk(Len(t))
        THEN [status |-> "ValueError", pos |-> <<>>, vel |-> <<>>, rot |-> <<>>]
        ELSE IF ~AverageOk(hann)
        THEN [status |-> "ZeroDivisionError", pos |-> <<>>, vel |-> <<>>, rot |-> <<>>]
        ELSE [status |-> "returned",
              pos |-> [i \in 1..Len(t) |-> average([j \in 1..k |-> spline_y], hann)],
              vel |-> [i \in 1..Len(t) |-> average([j \in 1..k |-> 0], hann)],
              rot |-> [i \in 1..Len(t) |-> "R"]]

Interpolate ==
    /\ ipc = "start"
    /\ \E k \in 1..MaxSamples :
        /\ samples' = k
        /\ interp' = interpolate(k)
        /\ ipc' = interpolate(k).status
    /\ UNCHANGED <<spline_x, spline_y, t, window, mask, mpc>>
    /\ UNCHANGED fusion_vars

TrajIdle ==
    /\ spline_x = <<>> /\ spline_y = 0 /\ t = <<>> /\ window = 0
    /\ mask = <<>> /\ mpc = "idle" /\ samples = 0 /\ interp = <<>> /\ ipc = "idle"

FusionNext == Postprocess

TrajNext == ValidMask \/ Interpolate

InitFusion == FusionInit /\ TrajIdle

InitTraj == FusionIdle /\ TrajInit

Init == (FusionInit /\ TrajIdle) \/ (FusionIdle /\ TrajInit)

Next == Postprocess \/ ValidMask \/ Interpolate

\* postprocess applied to drawn velocity and radar speed sequences
SpecFusion == InitFusion /\ [][FusionNext]_vars

\* valid_mask and interpolate applied to drawn trajectories and queries
SpecTraj == InitTraj /\ [][TrajNext]_vars

\* either of the two
Spec == Init /\ [][Next]_vars

----------------------------------------------------------------------------
(* Properties of postprocess *)

\* postprocess ran the fusion (adjust enabled) and returned
Adjusted == pc = "returned" /\ args.adjust

Samples == 1..Len(speed_slam)

Flagged(j) == speed_slam[j] + args.reject_threshold < speed_radar[j]

\* flagged samples among the reject_kernel positions of the window centred on i
FlagCount(i) ==
    Cardinality({j \in (i - args.reject_kernel \div 2)..(i + args.reject_kernel \div 2) :
                    j \in Samples /\ Flagged(j)})

Sign(n) == IF n > 0 THEN 1 ELSE IF n < 0 THEN -1 ELSE 0

\* out = s * v for one scalar s > 0 (the elements of out are fractions)
PositiveMultiple(out, v) ==
    /\ \A c \in 1..3 : out[c].kind = "fin" /\ Sign(out[c].num) = Sign(v[c])
    /\ \A c, d \in 1..3 :
        out[c].num * out[d].den * v[d] = out[d].num * out[c].den * v[c]

\* C1: with adjust enabled, wherever the reject signal is false and
\* speed_slam <= S, the fused speed is the minimum of speed_slam +
\* max_adjustment, S and median_filter(S, adjust_kernel), so it never exceeds
\* the median-filtered radar speed.
C1_FusedIsMinOfThree ==
    Adjusted =>
        \A i \in Samples :
            (reject[i] = 0 /\ speed_slam[i] <= speed_radar[i]) =>
                /\ speed_fused[i] =
                     Min(Min(speed_slam[i] + args.max_adjustment, speed_radar[i]),
                         medfilt(speed_radar, args.adjust_kernel)[i])
                /\ speed_fused[i] <= medfilt(speed_radar, args.adjust_kernel)[i]

\* C4 as stated: for all values of the fusion parameters every fused speed is
\* non-negative and every row with speed_slam # 0 is returned multiplied by a
\* positive scalar.
C4_DirectionAnyParameters ==
    Adjusted =>
        \A i \in Samples :
            /\ speed_fused[i] >= 0
            /\ speed_slam[i] # 0 => PositiveMultiple(ret[i], velocity[i])

\* C4 amended: the same, for max_adjustment >= 0.
C4_DirectionKept ==
    (Adjusted /\ args.max_adjustment >= 0) =>
        \A i \in Samples :
            /\ speed_fused[i] >= 0
            /\ speed_slam[i] # 0 => PositiveMultiple(ret[i], velocity[i])

\* a row with three non-zero components whose speed the fusion raised
C4_Witness ==
    /\ Adjusted /\ args.max_adjustment >= 0
    /\ \E i \in Samples :
        /\ velocity[i] = <<1, -2, 2>>
        /\ speed_fused[i] > speed_slam[i]
        /\ PositiveMultiple(ret[i], velocity[i])

\* C5: with adjust enabled every row whose SLAM speed is 0 is returned as the
\* zero vector, and no element of the output is NaN or infinite, whatever the
\* radar speed of the row.
C5_ZeroSpeedRowsAreZero ==
    Adjusted =>
        /\ \A i \in Samples : speed_slam[i] = 0 => \A c \in 1..3 : ret[i][c] = Fin(0)
        /\ \A i \in Samples : \A c \in 1..3 : ret[i][c].kind = "fin"

\* a row of speed 0 whose fused speed the radar raised above 0
C5_Witness ==
    /\ Adjusted
    /\ \E i \in Samples :
        /\ speed_slam[i] = 0 /\ speed_radar[i] > 0 /\ speed_fused[i] > 0
        /\ \A c \in 1..3 : ret[i][c] = Fin(0)

\* C9: with adjust enabled and max_adjustment >= 0, every sample has
\* speed_slam <= fused speed <= speed_slam + max_adjustment.
C9_FusedWithinAdjustment ==
    (Adjusted /\ args.max_adjustment >= 0) =>
        \A i \in Samples :
            /\ speed_slam[i] <= speed_fused[i]
            /\ speed_fused[i] <= speed_slam[i] + args.max_adjustment

\* the cap speed_slam + max_adjustment binds below the radar speed
C9_Witness ==
    /\ Adjusted /\ args.max_adjustment > 0
    /\ \E i \in Samples :
        /\ speed_slam[i] > 0
        /\ speed_fused[i] = speed_slam[i] + args.max_adjustment
        /\ speed_radar[i] > speed_fused[i]

\* C10: with adjust enabled, sample i is rejected (and its fused speed is
\* speed_slam) iff speed_slam + reject_threshold < S at more than half of the
\* reject_kernel positions of the window centred on i, positions outside the
\* sequence not counting; for reject_kernel >= 3 a flagged sample that is the
\* only one flagged in its window is not rejected.
C10_RejectIsMajority ==
    Adjusted =>
        \A i \in Samples :
            /\ reject[i] # 0 <=> 2 * FlagCount(i) > args.reject_kernel
            /\ reject[i] # 0 => speed_fused[i] = speed_slam[i]
            /\ (args.reject_kernel >= 3 /\ Flagged(i) /\ FlagCount(i) = 1) => reject[i] = 0

\* a sample rejected by two flags in its window of 3, its fused speed left
\* at speed_slam below the radar speed
C10_Witness ==
    /\ Adjusted /\ args.reject_kernel = 3
    /\ \E i \in Samples :
        /\ reject[i] # 0 /\ FlagCount(i) = 2
        /\ speed_fused[i] = speed_slam[i] /\ speed_radar[i] > speed_slam[i]

----------------------------------------------------------------------------
(* Properties of valid_mask and interpolate *)

Queries == 1..Len(t)

Interpolated == ipc \in {"returned", "ValueError", "ZeroDivisionError"}

\* the averaging window (centre +/- window / 2) of query i leaves the domain
OutOfDomain(i) == 2 * t[i] - window < 2 * t_min \/ 2 * t[i] + window > 2 * t_max

\* the float x is the number c
ValueIs(x, c) == x.kind = "fin" /\ x.num = c * x.den

\* C2: valid_mask(t, w) has one entry per query, and the entry is true iff
\* the entire window [t - w, t + w] lies in [t_min, t_max]; a query whose
\* centre is inside and whose window edge is outside is invalid.
C2_ValidIffWindowFits ==
    mpc = "returned" =>
        /\ Len(mask) = Len(t)
        /\ \A i \in Queries :
            mask[i] <=> \A tau \in (t[i] - window)..(t[i] + window) :
                            tau >= t_min /\ tau <= t_max

\* a centre inside the domain with a window edge outside, beside a valid query
C2_Witness ==
    /\ mpc = "returned"
    /\ \E i \in Queries :
        t[i] >= t_min /\ t[i] <= t_max /\ t[i] + window > t_max /\ ~mask[i]
    /\ \E i \in Queries : mask[i]

\* C3 as stated: domain [0, 10] s and w = 0.1 s give 0.05 invalid, 0.2 valid,
\* 9.95 valid, 9.96 invalid.
C3_MaskExample ==
    (mpc = "returned" /\ t_min = 0 /\ t_max = 1000 /\ window = 10) =>
        \A i \in Queries :
            /\ t[i] = 5 => ~mask[i]
            /\ t[i] = 20 => mask[i]
            /\ t[i] = 995 => mask[i]
            /\ t[i] = 996 => ~mask[i]

\* C3 amended: the same, with 9.95 invalid (9.95 + 0.1 > 10).
C3_MaskExampleAmended ==
    (mpc = "returned" /\ t_min = 0 /\ t_max = 1000 /\ window = 10) =>
        \A i \in Queries :
            /\ t[i] = 5 => ~mask[i]
            /\ t[i] = 20 => mask[i]
            /\ t[i] = 995 => ~mask[i]
            /\ t[i] = 996 => ~mask[i]

\* the four queries of the example in one call
C3_Witness ==
    /\ mpc = "returned" /\ t_min = 0 /\ t_max = 1000 /\ window = 10
    /\ t = <<5, 20, 995, 996>>
    /\ mask = <<FALSE, TRUE, FALSE, FALSE>>

\* C6 as stated: interpolate never raises on a query whose window extends
\* outside the domain; it returns an entry of each kind for every query.
C6_NeverRaisesOutOfDomain ==
    (Interpolated /\ samples >= 2 /\ \E i \in Queries : OutOfDomain(i)) =>
        /\ ipc = "returned"
        /\ Len(interp.pos) = Len(t) /\ Len(interp.vel) = Len(t) /\ Len(interp.rot) = Len(t)

\* C6 amended: with samples >= 2, interpolate raises ValueError whenever the
\* window of some query extends outside the domain, and returns nothing.
C6_OutOfDomainRaises ==
    (Interpolated /\ samples >= 2 /\ \E i \in Queries : OutOfDomain(i)) =>
        /\ ipc = "ValueError"
        /\ interp.pos = <<>> /\ interp.vel = <<>> /\ interp.rot = <<>>

\* a query centred inside the domain whose window leaves it makes the call raise
C6_Witness ==
    /\ ipc = "ValueError" /\ samples >= 3
    /\ \E i \in Queries : OutOfDomain(i) /\ t[i] >= t_min /\ t[i] <= t_max
    /\ \E i \in Queries : ~OutOfDomain(i)

\* every window lies in the domain and there is a query
AllInDomain == Len(t) > 0 /\ \A i \in Queries : ~OutOfDomain(i)

\* the averages of a returned call are those of a constant signal: the
\* position is spline_y and the velocity is 0, exactly
ConstantRecovered ==
    /\ ipc = "returned"
    /\ Len(interp.pos) = Len(t) /\ Len(interp.vel) = Len(t)
    /\ \A i \in Queries : ValueIs(interp.pos[i], spline_y) /\ ValueIs(interp.vel[i], 0)

\* C7 as stated: for every k >= 2 the Hann weights sum to something that can
\* be normalized, and the weighted average of a constant signal is the constant.
C7_HannAverageFromTwo ==
    (Interpolated /\ samples >= 2 /\ AllInDomain) =>
        /\ SumSeq(hanning(samples)) > 0
        /\ ConstantRecovered

\* C7 amended: the same for every k >= 3; for k = 2 both Hann weights are 0
\* and the averaging fails with ZeroDivisionError.
C7_HannAverageFromThree ==
    /\ (Interpolated /\ samples >= 3 /\ AllInDomain) =>
        /\ SumSeq(hanning(samples)) > 0
        /\ ConstantRecovered
    /\ (Interpolated /\ samples = 2 /\ AllInDomain) =>
        /\ SumSeq(hanning(samples)) = 0
        /\ ipc = "ZeroDivisionError"

\* a call with three or more subsamples returned the constant position
C7_Witness ==
    /\ samples >= 3 /\ AllInDomain /\ ConstantRecovered
    /\ spline_y # 0

\* C8 as stated: on empty input interpolate fails, and postprocess fails
\* whatever adjust and smoothing are; neither returns an empty output.
C8_EmptyInputFails ==
    /\ (Interpolated /\ Len(t) = 0) => ipc # "returned"
    /\ (pc \in {"returned", "raised"} /\ Len(velocity) = 0) => pc = "raised"

\* C8 amended: on empty input interpolate fails with ValueError, but
\* postprocess with adjust disabled and smoothing <= 0 returns the empty
\* velocity it was given.
C8_EmptyInput ==
    /\ (Interpolated /\ Len(t) = 0) => ipc = "ValueError"
    /\ (pc \in {"returned", "raised"} /\ Len(velocity) = 0
            /\ ~args.adjust /\ args.smoothing <= 0) =>
        pc = "returned" /\ ret = <<>>

\* postprocess returned an empty output for empty input
C8_Witness ==
    /\ pc = "returned" /\ Len(velocity) = 0 /\ Len(speed_radar) = 0
    /\ ~args.adjust /\ args.smoothing <= 0 /\ ret = <<>>

====
